---- MODULE Spec2Model ----
(***************************************************************************)
(* geminiutil.gmos.basic.mask_cut: slit geometry (prepare_mdf_table), slit *)
(* cutting (cut_slits) and mask edge finding (find_mask_edges).            *)
(*                                                                         *)
(* Real-valued quantities are exact rationals <<n, d>> with d > 0 in       *)
(* lowest terms; astropy units are dropped after the conversion the code   *)
(* asks for (every quantity is carried in the unit the code converts to).  *)
(***************************************************************************)
EXTENDS Integers, Sequences, FiniteSets, TLC

VARIABLES objs, cfg, data, prep, cut, flat_image, edges

vars == <<objs, cfg, data, prep, cut, flat_image, edges>>

geomVars == <<objs, cfg, data, prep, cut>>

edgeVars == <<flat_image, edges>>

(***************************************************************************)
(* Bounds of the model.                                                    *)
(***************************************************************************)
\* slit positions on the mask run over -MaxMM .. MaxMM millimetres
MaxMM == 2

\* a mask table holds 1 .. MaxSlits slits
MaxSlits == 2

\* a flat image has 2 .. MaxRows rows
MaxRows == 10

(***************************************************************************)
(* Exact rational arithmetic.  Every operator reads its operands before it *)
(* does anything else, which keeps the evaluation of a nested expression   *)
(* shallow.                                                                *)
(***************************************************************************)
Abs(a) == IF a < 0 THEN -a ELSE a

RECURSIVE GCD(_, _)
GCD(a, b) == IF b = 0 THEN a ELSE GCD(b, a % b)

\* n / d in lowest terms; d is not 0
R(n, d) ==
    IF n = 0 THEN <<0, 1>>
    ELSE IF d < 0 THEN <<(-n) \div GCD(Abs(n), -d), (-d) \div GCD(Abs(n), -d)>>
    ELSE <<n \div GCD(Abs(n), d), d \div GCD(Abs(n), d)>>

RInt(i) == <<i, 1>>

RAdd(a, b) ==
    IF a[2] = b[2] THEN R(a[1] + b[1], a[2])
    ELSE R(a[1] * (b[2] \div GCD(a[2], b[2])) + b[1] * (a[2] \div GCD(a[2], b[2])),
           (a[2] \div GCD(a[2], b[2])) * b[2])

RNeg(a) == <<-a[1], a[2]>>

RSub(a, b) == RAdd(a, RNeg(b))

RMul(a, b) ==
    IF a[1] = 0 \/ b[1] = 0 THEN <<0, 1>>
    ELSE R((a[1] \div GCD(Abs(a[1]), b[2])) * (b[1] \div GCD(Abs(b[1]), a[2])),
           (a[2] \div GCD(Abs(b[1]), a[2])) * (b[2] \div GCD(Abs(a[1]), b[2])))

\* b is not 0
RDiv(a, b) == RMul(a, IF b[1] < 0 THEN <<-b[2], -b[1]>> ELSE <<b[2], b[1]>>)

RLess(a, b) == a[1] * b[2] < b[1] * a[2]

\* numpy.round: to the nearest integer, halves to the even neighbour
Round(a) ==
    LET f == a[1] \div a[2]
        r == a[1] - f * a[2]
    IN  IF 2 * r < a[2] THEN f
        ELSE IF 2 * r > a[2] THEN f + 1
        ELSE IF f % 2 = 0 THEN f ELSE f + 1

\* ndarray.astype(int): truncation towards zero
AsInt(a) == IF a[1] >= 0 THEN a[1] \div a[2] ELSE -((-a[1]) \div a[2])

\* a function on 1 .. n as the sequence of its values, each computed once
List(f) == f \o <<>>

(***************************************************************************)
(* prepare_mdf_table: the geometry of one slit (one row of the MDF).  p is *)
(* the call's instrument parameters, row a row of the table.               *)
(***************************************************************************)
\* the 5% margin of the spectrum width
WidthMargin == <<21, 20>>

\* the coefficients of the x distortion, 0.0014 and 0.0167
DistortionLinear == <<7, 5000>>

DistortionQuadratic == <<167, 10000>>

slit_length(row, p) == RMul(RInt(row["slitsize_my"]), p.arcsecpermm)

slit_width(row, p) == RMul(RInt(row["slitsize_mx"]), p.arcsecpermm)

spectrum_width(row, p) == Round(RMul(WidthMargin, RDiv(slit_length(row, p), p.y_scale)))

spectrum_length(p) ==
    Round(RDiv(RSub(p.wavelength_end, p.wavelength_start), p.spectral_pixel_scale))

wavelength_central_pixel(p) ==
    RSub(RInt(spectrum_length(p)),
         RDiv(RSub(p.wavelength_central, p.wavelength_start), p.spectral_pixel_scale))

corrected_ypos(row, p) ==
    LET my == RInt(row["slitpos_my"])
        c  == p.y_distortion_coefficients
    IN  RAdd(RAdd(RMul(c[1], my), RMul(c[2], RMul(my, my))),
             RMul(c[3], RMul(my, RMul(my, my))))

x_center(p) == R(p.naxis1, 2)

y_center(p) == R(p.naxis2, 2)

slit_pos_y(row, p) ==
    RAdd(RDiv(RMul(corrected_ypos(row, p), p.arcsecpermm), p.y_scale), y_center(p))

slit_pos_x(row, p) ==
    RAdd(RDiv(RMul(RInt(row["slitpos_mx"]), p.arcsecpermm), p.x_scale), x_center(p))

distortion_x(row, p) ==
    LET y == RSub(RDiv(slit_pos_y(row, p), RInt(p.naxis2)), <<1, 2>>)
    IN  RMul(RInt(p.naxis1),
             RSub(RMul(DistortionLinear, y), RMul(DistortionQuadratic, RMul(y, y))))

\* x1 before the frame check (line 175-176)
x1(row, p) ==
    AsInt(RAdd(RAdd(RInt(Round(RSub(RSub(x_center(p),
                                         RDiv(RSub(x_center(p), slit_pos_x(row, p)),
                                              p.anamorphic_factor)),
                                    wavelength_central_pixel(p)))),
                    RDiv(p.wavelength_offset, p.spectral_pixel_scale)),
               distortion_x(row, p)))

x2(row, p) == x1(row, p) + spectrum_length(p)

\* y_offset is the number the code reads as y_offset.value
y1(row, p, y_offset) ==
    Round(RAdd(RSub(slit_pos_y(row, p), R(spectrum_width(row, p), 2)), y_offset))

y2(row, p, y_offset) == y1(row, p, y_offset) + spectrum_width(row, p)

\* refpix = np.ones_like(x1) * wavelength_central_pixel; refpix[x1 < 0] += x1,
\* xs the column x1 before line 186 clips it.  The left side of += holds the
\* rows with x1 < 0, the right side all of x1: numpy adds them when there are
\* as many on both sides or the right side is one value, and raises otherwise.
refpix(xs, wcp) ==
    LET picked == SelectSeq(List([i \in DOMAIN xs |-> i]), LAMBDA i : xs[i] < 0)
        added(i) == xs[IF Len(xs) = 1 THEN 1
                       ELSE CHOOSE j \in DOMAIN picked : picked[j] = i]
    IN  IF Len(picked) = Len(xs) \/ Len(xs) = 1
        THEN [status |-> "ok",
              v |-> List([i \in DOMAIN xs |->
                        IF xs[i] < 0 THEN RAdd(wcp, RInt(added(i))) ELSE wcp])]
        ELSE [status |-> "ValueError"]

\* x1[x1 < 0] = 0 and y1[y1 < 0] = 0
ClipLow(v) == IF v < 0 THEN 0 ELSE v

\* x2[x2 > naxis1] = naxis1 and y2[y2 > naxis2] = naxis2
ClipHigh(v, naxis) == IF v > naxis THEN naxis ELSE v

\* the section of one row after the frame check (lines 186-190)
Geometry(row, p, y_offset) ==
    [SECX1 |-> ClipLow(x1(row, p)),
     SECX2 |-> ClipHigh(x2(row, p), p.naxis1),
     SECY1 |-> ClipLow(y1(row, p, y_offset)),
     SECY2 |-> ClipHigh(y2(row, p, y_offset), p.naxis2)]

(***************************************************************************)
(* Tables (astropy.table.Table) are objects on a heap, a sequence indexed  *)
(* by reference: colnames in column order, rows as functions of the column *)
(* name.                                                                   *)
(***************************************************************************)
RawColumns == <<"slitpos_mx", "slitpos_my", "slitsize_mx", "slitsize_my">>

Range(s) == {s[i] : i \in DOMAIN s}

\* t[name] = vals: a new column is appended, an old one overwritten
SetColumn(tbl, name, vals) ==
    [colnames |-> IF name \in Range(tbl.colnames) THEN tbl.colnames
                  ELSE Append(tbl.colnames, name),
     rows     |-> List([i \in DOMAIN tbl.rows |-> (name :> vals[i]) @@ tbl.rows[i]])]

\* table.Table(mdf_table) that hands back its argument instead of a copy
TableAlias(heap, ref) == [heap |-> heap, ref |-> ref]

\* table.Table(mdf_table): a new table object holding a copy of the columns
Table(heap, ref) == [heap |-> Append(heap, heap[ref]), ref |-> Len(heap) + 1]

\* prepare_mdf_table(mdf_table = ref, ..., y_offset): y_offset.plain is the
\* default 0.0, a float, which has no .value (line 180)
prepare_mdf_table(heap, ref, p, y_offset) ==
    LET made == Table(heap, ref)
        t    == made.heap[made.ref]
        g    == List([i \in DOMAIN t.rows |-> Geometry(t.rows[i], p, y_offset.value)])
        col(name) == List([i \in DOMAIN t.rows |-> g[i][name]])
        ref_pix == refpix(List([i \in DOMAIN t.rows |-> x1(t.rows[i], p)]),
                          wavelength_central_pixel(p))
        t1   == SetColumn(t, "SECX1", col("SECX1"))
        t2   == SetColumn(t1, "SECX2", col("SECX2"))
        t3   == SetColumn(t2, "SECY1", col("SECY1"))
        t4   == SetColumn(t3, "SECY2", col("SECY2"))
        t5   == SetColumn(t4, "REFPIX1", ref_pix.v)
    IN  IF y_offset.plain
        THEN [status |-> "AttributeError", heap |-> made.heap, ref |-> 0]
        ELSE IF ref_pix.status # "ok"
        THEN [status |-> ref_pix.status, heap |-> made.heap, ref |-> 0]
        ELSE [status |-> "ok", heap |-> [made.heap EXCEPT ![made.ref] = t5],
              ref |-> made.ref]

(***************************************************************************)
(* Images (numpy arrays of two dimensions): the shape and the rows, a      *)
(* sequence of sequences; numpy counts rows and columns from 0.            *)
(***************************************************************************)
\* the value cut_slits marks the cut regions with (line 81)
CutMark == -1000

Max(a, b) == IF a > b THEN a ELSE b

Min(a, b) == IF a < b THEN a ELSE b

\* arr[r, c]
At(arr, r, c) == arr.v[r + 1][c + 1]

\* one end of a Python slice on an axis of length n
SliceEnd(i, n) == IF i < 0 THEN Max(i + n, 0) ELSE Min(i, n)

\* the indices slice(a, b) selects on an axis of length n
SliceIndices(a, b, n) == SliceEnd(a, n) .. (SliceEnd(b, n) - 1)

\* how many they are
SliceLen(a, b, n) == Max(SliceEnd(b, n) - SliceEnd(a, n), 0)

\* arr[sec_y1:sec_y2, sec_x1:sec_x2]
Slice2D(arr, sec_y1, sec_y2, sec_x1, sec_x2) ==
    [shape |-> <<SliceLen(sec_y1, sec_y2, arr.shape[1]),
                 SliceLen(sec_x1, sec_x2, arr.shape[2])>>,
     v     |-> List([r \in 1 .. SliceLen(sec_y1, sec_y2, arr.shape[1]) |->
                   List([c \in 1 .. SliceLen(sec_x1, sec_x2, arr.shape[2]) |->
                       arr.v[SliceEnd(sec_y1, arr.shape[1]) + r]
                            [SliceEnd(sec_x1, arr.shape[2]) + c]])])]

\* arr[sec_y1:sec_y2, sec_x1:sec_x2] = value
SetSlice2D(arr, sec_y1, sec_y2, sec_x1, sec_x2, value) ==
    [shape |-> arr.shape,
     v     |-> List([r \in 1 .. arr.shape[1] |->
                   List([c \in 1 .. arr.shape[2] |->
                       IF /\ r - 1 \in SliceIndices(sec_y1, sec_y2, arr.shape[1])
                          /\ c - 1 \in SliceIndices(sec_x1, sec_x2, arr.shape[2])
                       THEN value ELSE arr.v[r][c]])])]

(***************************************************************************)
(* cut_slits.  uncertainty and mask are <<>> for None and <<array>> for a  *)
(* plane; an HDU is its name and its data; the value returned is the       *)
(* sequence of the objects of the return statement.                        *)
(***************************************************************************)
SectionColumns == <<"SECX1", "SECX2", "SECY1", "SECY2">>

\* the return with the two objects in the other order
CutReturnBundleFirst(return_cut_image, cut_image, final_hdu_list) ==
    IF return_cut_image
    THEN <<[kind |-> "HDUList", v |-> final_hdu_list], [kind |-> "image", v |-> cut_image]>>
    ELSE <<[kind |-> "HDUList", v |-> final_hdu_list]>>

\* lines 92-95
CutReturn(return_cut_image, cut_image, final_hdu_list) ==
    IF return_cut_image
    THEN <<[kind |-> "image", v |-> cut_image], [kind |-> "HDUList", v |-> final_hdu_list]>>
    ELSE <<[kind |-> "HDUList", v |-> final_hdu_list]>>

\* the HDUs one pass of the loop appends for row i (lines 77-91, i from 0)
RowHDUs(i, row, data_arr, uncertainty, mask) ==
    LET sl(arr) == Slice2D(arr, row["SECY1"], row["SECY2"], row["SECX1"], row["SECX2"])
    IN  <<[name |-> <<"DATA", i>>, data |-> sl(data_arr)]>>
        \o (IF uncertainty # <<>>
            THEN <<[name |-> <<"UNCERTAINTY", i>>, data |-> sl(uncertainty[1])]>>
            ELSE <<>>)
        \o (IF mask # <<>>
            THEN <<[name |-> <<"MASK", i>>, data |-> sl(mask[1])]>>
            ELSE <<>>)

\* the for loop of lines 76-91 from row i on; acc holds final_hdu_list and cut_image
RECURSIVE CutLoop(_, _, _, _, _, _, _)
CutLoop(i, acc, data_arr, rows, uncertainty, mask, return_cut_image) ==
    IF i >= Len(rows) THEN acc
    ELSE LET row == rows[i + 1]
         IN  CutLoop(i + 1,
                     [final_hdu_list |->
                          acc.final_hdu_list \o RowHDUs(i, row, data_arr, uncertainty, mask),
                      cut_image |->
                          IF return_cut_image
                          THEN SetSlice2D(acc.cut_image, row["SECY1"], row["SECY2"],
                                          row["SECX1"], row["SECX2"], CutMark)
                          ELSE acc.cut_image],
                     data_arr, rows, uncertainty, mask, return_cut_image)

\* cut_slits(data, mdf_table, uncertainty, mask, return_cut_image): the outcome, the
\* value returned and data as the call leaves it
cut_slits(data_arr, mdf_table, uncertainty, mask, return_cut_image) ==
    IF "SECX1" \notin Range(mdf_table.colnames)
    THEN [status |-> "ValueError", ret |-> <<>>, data |-> data_arr]
    ELSE IF ~(Range(SectionColumns) \subseteq Range(mdf_table.colnames))
    THEN [status |-> "KeyError", ret |-> <<>>, data |-> data_arr]
    ELSE LET done == CutLoop(0,
                             [final_hdu_list |-> <<>>,
                              cut_image |-> IF return_cut_image THEN data_arr ELSE <<>>],
                             data_arr, mdf_table.rows, uncertainty, mask,
                             return_cut_image)
         IN  [status |-> "ok",
              ret    |-> CutReturn(return_cut_image, done.cut_image, done.final_hdu_list),
              data   |-> data_arr]

(***************************************************************************)
(* The inputs.                                                             *)
(***************************************************************************)
Row(mx, my, sx, sy) ==
    [slitpos_mx |-> mx, slitpos_my |-> my, slitsize_mx |-> sx, slitsize_my |-> sy]

\* the first slit of a mask: anywhere on the grid of positions
GridRows == {Row(mx, my, 1, 1) : mx \in -MaxMM .. MaxMM, my \in -MaxMM .. MaxMM}

\* the further slits: a longer slit at the centre of the mask
ExtraRows == {Row(0, 0, 1, 2)}

MaskTables ==
    {[colnames |-> RawColumns, rows |-> <<r>> \o tail] :
        r \in GridRows,
        tail \in UNION {[1 .. k -> ExtraRows] : k \in 0 .. MaxSlits - 1}}

Configs ==
    { [naxis1 |-> 6, naxis2 |-> 4, x_scale |-> <<1, 2>>, y_scale |-> <<1, 2>>,
       anamorphic_factor |-> <<1, 1>>, wavelength_offset |-> <<0, 1>>,
       spectral_pixel_scale |-> <<2, 1>>, wavelength_start |-> <<4000, 1>>,
       wavelength_central |-> <<4003, 1>>, wavelength_end |-> <<4006, 1>>,
       y_distortion_coefficients |-> <<(<<1, 1>>), (<<0, 1>>), (<<0, 1>>)>>,
       arcsecpermm |-> <<3, 2>>],
      [naxis1 |-> 5, naxis2 |-> 6, x_scale |-> <<1, 2>>, y_scale |-> <<3, 4>>,
       anamorphic_factor |-> <<3, 4>>, wavelength_offset |-> <<3, 1>>,
       spectral_pixel_scale |-> <<2, 1>>, wavelength_start |-> <<5000, 1>>,
       wavelength_central |-> <<5002, 1>>, wavelength_end |-> <<5008, 1>>,
       y_distortion_coefficients |-> <<(<<1, 1>>), (<<1, 2>>), (<<0, 1>>)>>,
       arcsecpermm |-> <<3, 2>>],
      [naxis1 |-> 4, naxis2 |-> 5, x_scale |-> <<1, 1>>, y_scale |-> <<1, 1>>,
       anamorphic_factor |-> <<2, 1>>, wavelength_offset |-> <<-1, 1>>,
       spectral_pixel_scale |-> <<1, 2>>, wavelength_start |-> <<6000, 1>>,
       wavelength_central |-> <<6001, 1>>, wavelength_end |-> <<6002, 1>>,
       y_distortion_coefficients |-> <<(<<1, 1>>), (<<0, 1>>), (<<-1, 4>>)>>,
       arcsecpermm |-> <<2, 1>>] }

\* the y_offset of a call: Quantities of 0 and -3/2 pixel, and the default 0.0
YOffsets ==
    {[plain |-> FALSE, value |-> <<0, 1>>], [plain |-> FALSE, value |-> <<-3, 2>>],
     [plain |-> TRUE, value |-> <<0, 1>>]}

\* the frame of the detector, every pixel a value of its own
Frame(p) ==
    [shape |-> <<p.naxis2, p.naxis1>>,
     v     |-> List([r \in 1 .. p.naxis2 |->
                        List([c \in 1 .. p.naxis1 |-> (r - 1) * p.naxis1 + c - 1])])]

\* the planes that go with an image
UncertaintyPlane(arr) ==
    [shape |-> arr.shape,
     v     |-> List([r \in 1 .. arr.shape[1] |->
                        List([c \in 1 .. arr.shape[2] |-> 2 * arr.v[r][c] + 1])])]

MaskPlane(arr) ==
    [shape |-> arr.shape,
     v     |-> List([r \in 1 .. arr.shape[1] |->
                        List([c \in 1 .. arr.shape[2] |-> (r + c) % 2])])]

\* the tables a caller holds that lack some of the section columns
Without(t, missing) ==
    [colnames |-> SelectSeq(t.colnames, LAMBDA c : c \notin missing),
     rows     |-> List([i \in DOMAIN t.rows |->
                      [c \in DOMAIN t.rows[i] \ missing |-> t.rows[i][c]]])]

MissingColumns == {{}} \cup {{c} : c \in Range(SectionColumns)} \cup {Range(SectionColumns)}

(***************************************************************************)
(* find_mask_edges.  The profile is a sequence of rationals; row index i   *)
(* of the code is element i + 1 of it.  sigma_clip is the one of the       *)
(* astropy release that takes sig, iters and maout; the arithmetic is      *)
(* exact where the code's is floating point.                               *)
(***************************************************************************)
RECURSIVE SumUpTo(_, _)
SumUpTo(s, k) == IF k = 0 THEN 0 ELSE s[k] + SumUpTo(s, k - 1)

\* the sum of a sequence of integers
Sum(s) == SumUpTo(s, Len(s))

RECURSIVE RSumUpTo(_, _)
RSumUpTo(s, k) == IF k = 0 THEN <<0, 1>> ELSE RAdd(s[k], RSumUpTo(s, k - 1))

\* the sum of a sequence of rationals
RSum(s) == RSumUpTo(s, Len(s))

\* np.diff(arr, axis=0)
Diff(arr) ==
    [shape |-> <<arr.shape[1] - 1, arr.shape[2]>>,
     v     |-> List([r \in 1 .. arr.shape[1] - 1 |->
                        List([c \in 1 .. arr.shape[2] |-> arr.v[r + 1][c] - arr.v[r][c]])])]

\* the k-th smallest of the integers d[j], j in J
KthSmallest(d, J, k) ==
    CHOOSE v \in {d[j] : j \in J} :
        /\ Cardinality({j \in J : d[j] < v}) < k
        /\ k <= Cardinality({j \in J : d[j] <= v})

\* twice np.median of the integers d[j], j in J (J not empty)
Median2(d, J) ==
    LET m == Cardinality(J)
    IN  IF m % 2 = 1
        THEN 2 * KthSmallest(d, J, (m + 1) \div 2)
        ELSE KthSmallest(d, J, m \div 2) + KthSmallest(d, J, m \div 2 + 1)

\* the columns a slice of the image columns selects, None written <<>>
Columns(use_image_columns, n) ==
    (IF use_image_columns.start = <<>> THEN 0 ELSE SliceEnd(use_image_columns.start[1], n))
    .. (IF use_image_columns.stop = <<>> THEN n ELSE SliceEnd(use_image_columns.stop[1], n)) - 1

\* np.median(gradient_image[:, use_image_columns], axis=1)
MedianProfile(gradient_image, use_image_columns) ==
    List([r \in 1 .. gradient_image.shape[1] |->
        R(Median2(gradient_image.v[r],
                  {c + 1 : c \in Columns(use_image_columns, gradient_image.shape[2])}), 2)])

\* the radius of the kernel of scipy's gaussian_filter1d, int(4.0 * sigma + 0.5)
KernelRadius(sigma) == AsInt(RAdd(RMul(<<4, 1>>, sigma), <<1, 2>>))

\* math.exp(-0.5 * ii * ii / sigma ** 2), the weight ii samples off the centre,
\* as a rational of two digits: exp(-0.5 / 0.36 ** 2) = 0.0211
GaussWeight(ii, sigma) ==
    IF ii = 0 THEN <<1, 1>> ELSE CASE sigma = <<9, 25>> /\ ii = 1 -> <<1, 47>>

\* where index i falls on an axis of length n continued by reflection
\* (d c b a | a b c d | d c b a)
Reflect(i, n) == IF i % (2 * n) < n THEN i % (2 * n) ELSE 2 * n - 1 - (i % (2 * n))

\* ndimage.gaussian_filter(input, sigma) of a profile
gaussian_filter(input, sigma) ==
    LET lw == KernelRadius(sigma)
        weights == List([k \in 1 .. 2 * lw + 1 |-> GaussWeight(Abs(k - 1 - lw), sigma)])
        sum == RSum(weights)
        normed == List([k \in 1 .. 2 * lw + 1 |-> RDiv(weights[k], sum)])
        n == Len(input)
    IN  List([i \in 1 .. n |->
            RSum(List([k \in 1 .. 2 * lw + 1 |->
                RMul(normed[k], input[Reflect(i - 1 + k - 1 - lw, n) + 1])]))])

RECURSIVE LcmUpTo(_, _)
LcmUpTo(s, k) ==
    IF k = 0 THEN 1
    ELSE LET l == LcmUpTo(s, k - 1) IN (l \div GCD(l, s[k][2])) * s[k][2]

\* the rationals of s as integers over their common denominator
Scaled(s) ==
    LET l == LcmUpTo(s, Len(s)) IN List([i \in DOMAIN s |-> s[i][1] * (l \div s[i][2])])

\* one iteration of astropy's sigma_clip on the samples d, kept those of mask:
\* do = data - median(data[mask]); mask = do * do <= var(data[mask]) * sig ** 2
ClipPass(d, mask, sig) ==
    LET J == {j \in DOMAIN d : mask[j]}
        m == Cardinality(J)
        S == Sum(List([j \in DOMAIN d |-> IF mask[j] THEN d[j] ELSE 0]))
        SS == Sum(List([j \in DOMAIN d |-> IF mask[j] THEN d[j] * d[j] ELSE 0]))
        med2 == Median2(d, J)
        bound == 4 * sig * sig * (m * SS - S * S)
    IN  IF m = 0
        THEN List([j \in DOMAIN d |-> FALSE])
        ELSE List([j \in DOMAIN d |->
                 m * m * (2 * d[j] - med2) * (2 * d[j] - med2) <= bound])

RECURSIVE ClipLoop(_, _, _, _)
ClipLoop(d, mask, sig, iters) ==
    IF iters = 0 THEN mask ELSE ClipLoop(d, ClipPass(d, mask, sig), sig, iters - 1)

\* stats.sigma_clip(data, sig=sig, iters=iters, maout=True): the masked array
\* of data whose mask marks the samples clipped
sigma_clip(data_seq, sig, iters) ==
    LET kept == ClipLoop(Scaled(data_seq), List([j \in DOMAIN data_seq |-> TRUE]), sig, iters)
    IN  [data |-> data_seq, mask |-> List([j \in DOMAIN data_seq |-> ~kept[j]])]

RECURSIVE groupby(_, _, _)
\* itertools.groupby(pixel_index, key), keys[i + 1] the key of pixel index i
groupby(keys, i, acc) ==
    IF i >= Len(keys) THEN acc
    ELSE IF acc # <<>> /\ acc[Len(acc)].key = keys[i + 1]
         THEN groupby(keys, i + 1, [acc EXCEPT ![Len(acc)].group = Append(@, i)])
         ELSE groupby(keys, i + 1, Append(acc, [key |-> keys[i + 1], group |-> <<i>>]))

\* the groups of the other key, for comparison only
edge_groups_masked(mask) ==
    LET kept == SelectSeq(groupby(mask, 0, <<>>), LAMBDA g : g.key = TRUE)
    IN  List([k \in DOMAIN kept |-> kept[k].group])

\* [list(group) for key, group in itertools.groupby(...) if key==False]
edge_groups(mask) ==
    LET kept == SelectSeq(groupby(mask, 0, <<>>), LAMBDA g : g.key = FALSE)
    IN  List([k \in DOMAIN kept |-> kept[k].group])

\* the plain mean of a, for comparison only
mean(a, weights) == [error |-> "", v |-> R(Sum(a), Len(a))]

\* np.average(a, weights=weights)
average(a, weights) ==
    IF RSum(weights)[1] = 0
    THEN [error |-> "ZeroDivisionError"]
    ELSE [error |-> "",
          v |-> RDiv(RSum(List([k \in DOMAIN a |-> RMul(RInt(a[k]), weights[k])])),
                     RSum(weights))]

RECURSIVE EdgeLoop(_, _, _, _)
\* the loop over the edge groups, from group k on
EdgeLoop(groups, k, gradient_profile, acc) ==
    IF k > Len(groups) THEN [error |-> "", v |-> acc]
    ELSE IF Len(groups[k]) = 1
         THEN EdgeLoop(groups, k + 1, gradient_profile, acc)
         ELSE LET edge_group == groups[k]
                  r == average(edge_group,
                               List([j \in DOMAIN edge_group |->
                                        gradient_profile[edge_group[j] + 1]]))
              IN  IF r.error # "" THEN r
                  ELSE EdgeLoop(groups, k + 1, gradient_profile, Append(acc, r.v))

find_mask_edges(image, use_image_columns, sigma, sigma_clip_sigma, sigma_clip_iter) ==
    LET gradient_image == Diff(image)
        gradient_profile ==
            gaussian_filter(MedianProfile(gradient_image, use_image_columns), sigma)
        clipped_gradient_profile ==
            sigma_clip(gradient_profile, sigma_clip_sigma, sigma_clip_iter)
        n == Len(gradient_profile)
        peak_mask == List([j \in 1 .. n |->
            clipped_gradient_profile.mask[j] /\ clipped_gradient_profile.data[j][1] >= 0])
        trough_mask == List([j \in 1 .. n |->
            clipped_gradient_profile.mask[j] /\ clipped_gradient_profile.data[j][1] < 0])
        peaks == [data |-> clipped_gradient_profile.data,
                  mask |-> List([j \in 1 .. n |-> ~peak_mask[j]])]
        troughs == [data |-> clipped_gradient_profile.data,
                    mask |-> List([j \in 1 .. n |-> ~trough_mask[j]])]
        lower_edges == EdgeLoop(edge_groups(peaks.mask), 1, gradient_profile, <<>>)
        upper_edges == EdgeLoop(edge_groups(troughs.mask), 1, gradient_profile, <<>>)
    IN  IF lower_edges.error # "" THEN [status |-> lower_edges.error]
        ELSE IF upper_edges.error # "" THEN [status |-> upper_edges.error]
        ELSE [status |-> "ok", peaks |-> peaks, troughs |-> troughs,
              lower_edges |-> lower_edges.v, upper_edges |-> upper_edges.v]

(***************************************************************************)
(* Flat images and arguments of find_mask_edges.                           *)
(***************************************************************************)
\* the step from one row of a flat to the next
Deltas == {-1, 0, 1}

RECURSIVE ColumnUpTo(_, _, _)
\* the first k pixels of the column that starts at first and steps by ds
ColumnUpTo(first, ds, k) ==
    IF k = 1 THEN <<first>>
    ELSE LET col == ColumnUpTo(first, ds, k - 1) IN Append(col, col[k - 1] + ds[k - 1])

\* a flat of two columns: the first steps by ds, the second as well or not at all
FlatImage(ds, second_flat) ==
    LET col == ColumnUpTo(Len(ds), ds, Len(ds) + 1)
    IN  [shape |-> <<Len(ds) + 1, 2>>,
         v     |-> List([r \in 1 .. Len(ds) + 1 |->
                            <<col[r], IF second_flat THEN Len(ds) ELSE col[r]>>])]

\* the steps of a flat across one slit: at most three stretches of equal steps
SlitSteps(n) ==
    {ds \in [1 .. n -> Deltas] :
        Cardinality({k \in 1 .. n - 1 : ds[k] # ds[k + 1]}) <= 2}

FlatImages ==
    {FlatImage(ds, second_flat) :
        ds \in UNION {SlitSteps(n) : n \in 1 .. MaxRows - 1},
        second_flat \in BOOLEAN}

\* slice(None), slice(0, 1) and slice(-1, None)
ColumnSlices ==
    {[start |-> <<>>, stop |-> <<>>], [start |-> <<0>>, stop |-> <<1>>],
     [start |-> <<-1>>, stop |-> <<>>]}

\* a sigma whose kernel is the one sample, and one whose kernel spans three
GaussSigmas == {<<1, 10>>, <<9, 25>>}

ClipSigmas == {1, 2}

ClipIters == {1, 5}

(***************************************************************************)
(* The state: objs the heap of tables, objs[1] the caller's MDF; prep and  *)
(* cut the calls made of prepare_mdf_table and cut_slits, with what they   *)
(* returned; data the image.                                               *)
(***************************************************************************)
NoCall == [status |-> "none"]

InitEdgesIdle ==
    /\ flat_image = [shape |-> <<0, 0>>, v |-> <<>>]
    /\ edges = NoCall

Init ==
    /\ cfg \in Configs
    /\ objs \in {<<t>> : t \in MaskTables}
    /\ data = Frame(cfg)
    /\ prep = NoCall
    /\ cut = NoCall
    /\ InitEdgesIdle

Prepare ==
    /\ prep.status = "none"
    /\ \E y_offset \in YOffsets :
          LET r == prepare_mdf_table(objs, 1, cfg, y_offset)
          IN  /\ objs' = r.heap
              /\ prep' = [status |-> r.status, mdf_table |-> 1, ref |-> r.ref,
                          y_offset |-> y_offset]
    /\ UNCHANGED <<cfg, data, cut>>
    /\ UNCHANGED edgeVars

\* the tables a caller has to pass on once prepare_mdf_table was called: the MDF
\* itself and, of the table returned, every version that lacks section columns
CallerTables ==
    {objs[1]} \cup (IF prep.status = "ok"
                    THEN {Without(objs[prep.ref], m) : m \in MissingColumns}
                    ELSE {})

CutSlits ==
    /\ prep.status # "none"
    /\ cut.status = "none"
    /\ \E mdf_table \in CallerTables,
          with_uncertainty \in BOOLEAN, with_mask \in BOOLEAN,
          return_cut_image \in BOOLEAN :
          LET uncertainty == IF with_uncertainty THEN <<UncertaintyPlane(data)>> ELSE <<>>
              mask == IF with_mask THEN <<MaskPlane(data)>> ELSE <<>>
              r == cut_slits(data, mdf_table, uncertainty, mask, return_cut_image)
          IN  /\ cut' = [status |-> r.status, mdf_table |-> mdf_table,
                         uncertainty |-> with_uncertainty, mask |-> with_mask,
                         return_cut_image |-> return_cut_image, ret |-> r.ret]
              /\ data' = r.data
    /\ UNCHANGED <<cfg, objs, prep>>
    /\ UNCHANGED edgeVars

Next == Prepare \/ CutSlits

Spec == Init /\ [][Next]_vars

\* find_mask_edges on its own: a flat image and one call of the edge finder
InitEdges ==
    /\ cfg = CHOOSE p \in Configs : p.naxis1 = 6
    /\ objs = <<>>
    /\ data = Frame(cfg)
    /\ prep = NoCall
    /\ cut = NoCall
    /\ flat_image \in FlatImages
    /\ edges = NoCall

FindMaskEdges ==
    /\ edges.status = "none"
    /\ \E use_image_columns \in ColumnSlices, sigma \in GaussSigmas,
          sigma_clip_sigma \in ClipSigmas, sigma_clip_iter \in ClipIters :
          edges' = [use_image_columns |-> use_image_columns,
                    gauss_filter_sigma |-> sigma,
                    sigma_clip_sigma |-> sigma_clip_sigma,
                    sigma_clip_iter |-> sigma_clip_iter]
                   @@ find_mask_edges(flat_image, use_image_columns, sigma,
                                      sigma_clip_sigma, sigma_clip_iter)
    /\ UNCHANGED <<flat_image, objs, cfg, data, prep, cut>>

NextEdges == FindMaskEdges

SpecEdges == InitEdges /\ [][NextEdges]_vars

(***************************************************************************)
(* What is checked of prepare_mdf_table and cut_slits.                     *)
(***************************************************************************)
DerivedColumns == <<"SECX1", "SECX2", "SECY1", "SECY2", "REFPIX1">>

PrepOk == prep.status = "ok"

\* the table prepare_mdf_table returned
Returned == objs[prep.ref]

\* the row of the caller's MDF
MdfRow(i) == objs[1].rows[i]

CutOk == cut.status = "ok"

\* cut_slits was given the table just as prepare_mdf_table returned it
CutOfReturned == CutOk /\ PrepOk /\ cut.mdf_table = Returned

\* the HDUs of final_hdu_list / the annotated image, of what cut_slits returned
Returns(kind) == {k \in DOMAIN cut.ret : cut.ret[k].kind = kind}

Bundle == cut.ret[CHOOSE k \in Returns("HDUList") : TRUE].v

Annotated == cut.ret[CHOOSE k \in Returns("image") : TRUE].v

HDUsNamed(name) == {k \in DOMAIN Bundle : Bundle[k].name = name}

\* arr holds plane[SECY1:SECY2, SECX1:SECX2], a rectangle of SECY2-SECY1 by SECX2-SECX1
IsSection(arr, plane, row) ==
    /\ arr.shape = <<row["SECY2"] - row["SECY1"], row["SECX2"] - row["SECX1"]>>
    /\ \A r \in 0 .. arr.shape[1] - 1 : \A c \in 0 .. arr.shape[2] - 1 :
          At(arr, r, c) = At(plane, row["SECY1"] + r, row["SECX1"] + c)

\* C1 (as claimed): every row of the table prepare_mdf_table returns has
\* 0 <= SECX1 <= SECX2 <= naxis1 and 0 <= SECY1 <= SECY2 <= naxis2.
C1_SectionsInFrame ==
    PrepOk =>
        \A i \in DOMAIN Returned.rows :
            LET row == Returned.rows[i]
            IN  /\ 0 <= row["SECX1"] /\ row["SECX1"] <= row["SECX2"]
                /\ row["SECX2"] <= cfg.naxis1
                /\ 0 <= row["SECY1"] /\ row["SECY1"] <= row["SECY2"]
                /\ row["SECY2"] <= cfg.naxis2

\* C2 (as claimed): cut_slits on a table from prepare_mdf_table returns, for every
\* row i, a data cutout of shape (SECY2-SECY1, SECX2-SECX1) that equals
\* image[SECY1:SECY2, SECX1:SECX2], and uncertainty and mask cutouts of the same
\* rectangle when the planes are given.
C2_CutoutIsSection ==
    CutOfReturned =>
        \A i \in DOMAIN Returned.rows :
            LET row == Returned.rows[i]
                want(name, plane) ==
                    /\ Cardinality(HDUsNamed(<<name, i - 1>>)) = 1
                    /\ \A k \in HDUsNamed(<<name, i - 1>>) :
                          IsSection(Bundle[k].data, plane, row)
            IN  /\ want("DATA", Frame(cfg))
                /\ cut.uncertainty => want("UNCERTAINTY", UncertaintyPlane(Frame(cfg)))
                /\ cut.mask => want("MASK", MaskPlane(Frame(cfg)))

\* C3 (as claimed): cut_slits fails with the 'table has not been prepared' error,
\* returning nothing, whenever the table lacks one of SECX1, SECX2, SECY1, SECY2,
\* and succeeds whenever all four are there.
C3_UnpreparedIsRefused ==
    cut.status # "none" =>
        IF Range(SectionColumns) \subseteq Range(cut.mdf_table.colnames)
        THEN cut.status = "ok"
        ELSE cut.status = "ValueError" /\ cut.ret = <<>>

\* the pixels <<r, c>> of the boxes [SECY1, SECY2) x [SECX1, SECX2) of the table
InBoxes(r, c) ==
    \E i \in DOMAIN cut.mdf_table.rows :
        LET row == cut.mdf_table.rows[i]
        IN  /\ row["SECY1"] <= r /\ r < row["SECY2"]
            /\ row["SECX1"] <= c /\ c < row["SECX2"]

\* C4 (as claimed): with return_cut_image the annotated image differs from the
\* original only at pixels inside the union of the rows' boxes, and the image
\* passed in is unchanged by the call.
C4_MarksOnlyInBoxes ==
    (CutOk /\ cut.return_cut_image) =>
        /\ data = Frame(cfg)
        /\ Annotated.shape = data.shape
        /\ \A r \in 0 .. data.shape[1] - 1 : \A c \in 0 .. data.shape[2] - 1 :
              At(Annotated, r, c) # At(data, r, c) => InBoxes(r, c)

\* C5 (as claimed): the table returned is the caller's table object, which after
\* the call carries SECX1, SECX2, SECY1, SECY2 and REFPIX1.
C5_AugmentsInPlace ==
    PrepOk =>
        /\ prep.ref = prep.mdf_table
        /\ Range(DerivedColumns) \subseteq Range(objs[prep.mdf_table].colnames)

\* C5 (amended): prepare_mdf_table returns a new table, a copy of the caller's
\* with SECX1, SECX2, SECY1, SECY2 and REFPIX1 appended, one row per slit in the
\* caller's order; the caller's table is left without the derived columns.
C5_ReturnsAugmentedCopy ==
    PrepOk =>
        /\ prep.ref # prep.mdf_table
        /\ objs[prep.mdf_table].colnames = RawColumns
        /\ \A i \in DOMAIN objs[prep.mdf_table].rows :
              DOMAIN objs[prep.mdf_table].rows[i] = Range(RawColumns)
        /\ Returned.colnames = RawColumns \o DerivedColumns
        /\ Len(Returned.rows) = Len(objs[prep.mdf_table].rows)
        /\ \A i \in DOMAIN Returned.rows :
              /\ DOMAIN Returned.rows[i] = Range(RawColumns) \cup Range(DerivedColumns)
              /\ \A c \in Range(RawColumns) : Returned.rows[i][c] = MdfRow(i)[c]

C5_Witness == PrepOk /\ Len(Returned.rows) > 1 /\ MdfRow(1) # MdfRow(2)

\* C6 (as claimed): a call without y_offset completes and yields the SECY1 and
\* SECY2 of a call with a y_offset of zero pixels.
C6_DefaultYOffsetWorks ==
    (prep.status # "none" /\ prep.y_offset.plain) =>
        /\ PrepOk
        /\ \A i \in DOMAIN Returned.rows :
              /\ Returned.rows[i]["SECY1"] = ClipLow(y1(MdfRow(i), cfg, <<0, 1>>))
              /\ Returned.rows[i]["SECY2"] =
                     ClipHigh(y2(MdfRow(i), cfg, <<0, 1>>), cfg.naxis2)

\* C7 (as claimed): prepare_mdf_table, given a y_offset it can read, returns a
\* table in which every row's REFPIX1 is wavelength_central_pixel where the
\* row's unclipped x1 is >= 0, and wavelength_central_pixel + x1 (x1 as before it
\* is clipped to 0) where it is < 0.
C7_RefPix ==
    (prep.status # "none" /\ ~prep.y_offset.plain) =>
        /\ PrepOk
        /\ \A i \in DOMAIN Returned.rows :
              Returned.rows[i]["REFPIX1"] =
                  IF x1(MdfRow(i), cfg) >= 0
                  THEN wavelength_central_pixel(cfg)
                  ELSE RAdd(wavelength_central_pixel(cfg), RInt(x1(MdfRow(i), cfg)))

\* C8 (as claimed): with return_cut_image the bundle is the first element of the
\* result and the annotated image the second; without it the bundle alone.
C8_BundleFirst ==
    CutOk =>
        IF cut.return_cut_image
        THEN /\ Len(cut.ret) = 2
             /\ cut.ret[1].kind = "HDUList" /\ cut.ret[2].kind = "image"
        ELSE Len(cut.ret) = 1 /\ cut.ret[1].kind = "HDUList"

\* C8 (amended): with return_cut_image the annotated image is the first element
\* of the result and the bundle the second; without it the bundle alone.
C8_ImageFirst ==
    CutOk =>
        IF cut.return_cut_image
        THEN /\ Len(cut.ret) = 2
             /\ cut.ret[1].kind = "image" /\ cut.ret[1].v.shape = data.shape
             /\ cut.ret[2].kind = "HDUList"
             /\ Len(cut.ret[2].v) >= Len(cut.mdf_table.rows)
        ELSE Len(cut.ret) = 1 /\ cut.ret[1].kind = "HDUList"

C8_Witness ==
    /\ CutOk /\ cut.return_cut_image
    /\ \E r \in 0 .. data.shape[1] - 1 : \E c \in 0 .. data.shape[2] - 1 :
          At(cut.ret[1].v, r, c) = CutMark

(***************************************************************************)
(* What is checked of find_mask_edges.  The profiles are computed again    *)
(* from the flat and the arguments of the call.                            *)
(***************************************************************************)
EdgesCalled == edges.status # "none"

Unsmoothed == MedianProfile(Diff(flat_image), edges.use_image_columns)

Smoothed == gaussian_filter(Unsmoothed, edges.gauss_filter_sigma)

\* the samples of the profile w that sigma-clipping marks as outliers
Outlier(w) == sigma_clip(w, edges.sigma_clip_sigma, edges.sigma_clip_iter).mask

NoOutliers == LET out == Outlier(Smoothed) IN \A j \in DOMAIN out : ~out[j]

\* C9: when sigma-clipping marks no sample of the profile as an outlier,
\* find_mask_edges does not fail and returns no lower and no upper edge.
C9_NoOutliersNoEdges ==
    (EdgesCalled /\ NoOutliers) =>
        /\ edges.status = "ok"
        /\ edges.lower_edges = <<>>
        /\ edges.upper_edges = <<>>

\* no outliers in a profile that is not uniform
C9_Witness ==
    /\ EdgesCalled /\ NoOutliers
    /\ edges.status = "ok"
    /\ Len(Smoothed) >= 4
    /\ \E j, k \in DOMAIN Smoothed : RLess(Smoothed[j], Smoothed[k])

\* the edge candidates of the profile w: outliers, of gradient >= 0 or < 0
LowerCandidates(out, w) == List([j \in DOMAIN out |-> out[j] /\ ~RLess(w[j], <<0, 1>>)])

UpperCandidates(out, w) == List([j \in DOMAIN out |-> out[j] /\ RLess(w[j], <<0, 1>>)])

\* the maximal runs <<first, last>> of two or more consecutive row indices flagged
Runs(flags) ==
    {run \in (0 .. Len(flags) - 1) \X (0 .. Len(flags) - 1) :
        /\ run[1] < run[2]
        /\ \A i \in run[1] .. run[2] : flags[i + 1]
        /\ run[1] = 0 \/ ~flags[run[1]]
        /\ run[2] = Len(flags) - 1 \/ ~flags[run[2] + 2]}

\* the weights w at the row indices of run
RunWeights(run, w) == List([k \in 1 .. run[2] - run[1] + 1 |-> w[run[1] + k]])

ZeroWeight(run, w) == RSum(RunWeights(run, w))[1] = 0

\* the average of the row indices of run weighted by w
Centroid(run, w) ==
    RDiv(RSum(List([k \in 1 .. run[2] - run[1] + 1 |->
                       RMul(RInt(run[1] + k - 1), w[run[1] + k])])),
         RSum(RunWeights(run, w)))

\* edge_list holds, in increasing row order, one value per run of runs: the
\* centroid of the run under the weights w, between the run's first and last index
IsCentroids(edge_list, runs, w) ==
    /\ Len(edge_list) = Cardinality(runs)
    /\ \A run \in runs :
          LET k == 1 + Cardinality({r \in runs : r[1] < run[1]})
          IN  /\ ~ZeroWeight(run, w)
              /\ edge_list[k] = Centroid(run, w)
              /\ ~RLess(edge_list[k], RInt(run[1]))
              /\ ~RLess(RInt(run[2]), edge_list[k])

====
